---- MODULE Spec2Model ----
(***************************************************************************)
(* State-machine model of cloud/openstack/os_server.py: one invocation of  *)
(* the module (main) reconciles one named compute instance against the     *)
(* supplied arguments, talking to the cloud through the shade client.      *)
(*                                                                         *)
(* Python dictionaries are modelled as functions whose domain is the set   *)
(* of keys that hold a value other than None; None itself is the function  *)
(* with the empty domain.                                                  *)
(***************************************************************************)
EXTENDS Integers, Sequences, FiniteSets, TLC

\* ------------------------------------------------------------------ bounds
MaxInvocations == 2     \* successive runs of the module with the same arguments
NumAddrs == 2           \* floating addresses the provider has to hand out

\* ------------------------------------------------------------------ values
None == [k \in {} |-> k]
Opt(k, V) == {None} \cup {k :> v : v \in V}
Has(d, k) == k \in DOMAIN d

TruthyStr(d, k) == Has(d, k) /\ d[k] # ""
TruthyInt(d, k) == Has(d, k) /\ d[k] # 0
TruthySeq(d, k) == Has(d, k) /\ d[k] # <<>>
TruthyBool(d, k) == Has(d, k) /\ d[k] = TRUE

\* keyword argument k taken from d[src]; a None value leaves the key out
Kw(k, d, src) == IF Has(d, src) THEN k :> d[src] ELSE None

Range(s) == {s[i] : i \in 1..Len(s)}

ServerName == "vm"
ServerId == "srv-1"
AddrPool == <<"10.0.0.1", "10.0.0.2", "10.0.0.3", "10.0.0.4">>
FloatingAddrs == {AddrPool[i] : i \in 1..NumAddrs}
FixedAddrs == {"192.168.0.5"}
Pools == {"ext-net"}
Timeouts == {180}
Statuses == {"BUILD", "ACTIVE", "SHUTOFF", "PAUSED", "SUSPENDED", "ERROR"}

RECURSIVE Listings(_)
\* the ways of listing the elements of S, each once
Listings(S) ==
    IF S = {} THEN {<<>>}
    ELSE UNION {{<<x>> \o l : l \in Listings(S \ {x})} : x \in S}

IpLists == UNION {Listings(S) : S \in (SUBSET FloatingAddrs) \ {{}}}

NicLists ==
    { <<"net-id" :> "net-1", "port-name" :> "eth0">>,
      <<"net-name" :> "private", "port-id" :> "port-1">> }

\* Flavor names are sequences of letters, so that "the name contains the
\* include filter" is the substring test and not an equality.
Contains(name, sub) ==
    \E i \in 1..(Len(name) - Len(sub) + 1) : SubSeq(name, i, i + Len(sub) - 1) = sub
FlavorIncludes == { <<"s", "t">> }
FlavorUniverse ==
    { [id |-> "flavor-a", name |-> <<"s", "t", "d">>, ram |-> 256],
      [id |-> "flavor-b", name |-> <<"p", "e", "r", "f">>, ram |-> 512],
      [id |-> "flavor-c", name |-> <<"s", "t", "d">>, ram |-> 1024] }

\* ------------------------------------------------------- module arguments
\* The arguments a caller can supply.  A key outside the domain was not
\* supplied.  wait and timeout come from the shared openstack argument
\* spec and always have a value.
\* flavor_include is read only together with flavor_ram, and nics only by
\* _network_args on the way to a create call, which state = absent never
\* takes: flavor_include is enumerated with a flavor_ram and nics with
\* state = present.
SuppliedArguments ==
    {a1 @@ a2 @@ a3 @@ a4 @@ a5 @@ a6 @@ a7 @@ a8 @@ a9 @@ a10 @@ a11 :
        a1 \in Opt("state", {"present", "absent"}) \ {None},
        a2 \in Opt("image", {"img"}),
        a3 \in Opt("root_volume", {"vol"}),
        a4 \in Opt("flavor", {"m1.small"}),
        a5 \in Opt("flavor_ram", {0, 512}) \cup
                  {("flavor_ram" :> 512) @@ ("flavor_include" :> inc) :
                     inc \in FlavorIncludes},
        a6 \in Opt("auto_floating_ip", BOOLEAN),
        a7 \in Opt("floating_ips", IpLists),
        a8 \in Opt("floating_ip_pools", {<<p>> : p \in Pools}),
        a9 \in Opt("nics", NicLists),
        a10 \in Opt("wait", BOOLEAN) \ {None},
        a11 \in Opt("timeout", Timeouts) \ {None}}

Arguments == {a \in SuppliedArguments : Has(a, "nics") => a["state"] = "present"}

\* argument_spec defaults that are not None
ArgumentDefaults ==
    ("name" :> ServerName) @@ ("image_exclude" :> "(deprecated)") @@
    ("nics" :> <<>>) @@ ("auto_floating_ip" :> TRUE) @@ ("state" :> "present")

ModuleParams(a) == a @@ ArgumentDefaults

\* mutant: the floating_ips / floating_ip_pools pair is left out
MutuallyExclusiveWithoutPoolPair ==
    { {"auto_floating_ip", "floating_ips"},
      {"auto_floating_ip", "floating_ip_pools"},
      {"flavor", "flavor_ram"},
      {"image", "root_volume"} }

MutuallyExclusive ==
    { {"auto_floating_ip", "floating_ips"},
      {"auto_floating_ip", "floating_ip_pools"},
      {"floating_ips", "floating_ip_pools"},
      {"flavor", "flavor_ram"},
      {"image", "root_volume"} }

\* AnsibleModule counts the terms of each group that the caller supplied
ExclusiveConflict(a) ==
    \E group \in MutuallyExclusive : Cardinality(group \cap DOMAIN a) > 1

ImageRequiredMissing(p) ==
    p["state"] = "present" /\ ~(TruthyStr(p, "image") \/ TruthyStr(p, "root_volume"))

\* mutant: the flavor check is made whatever the state
FlavorRequiredMissingAnyState(p) ==
    ~TruthyStr(p, "flavor") /\ ~TruthyInt(p, "flavor_ram")

FlavorRequiredMissing(p) ==
    /\ p["state"] = "present"
    /\ ~TruthyStr(p, "flavor") /\ ~TruthyInt(p, "flavor_ram")

\* ------------------------------------------------------------ cloud calls
\* The calls the module makes on the shade client, in the order made.
GetServerCall(p) == [op |-> "get_server", name |-> p["name"]]

\* mutant: the delete call does not pass on the wait argument
DeleteServerCallNoWait(p) ==
    [op |-> "delete_server", name |-> p["name"],
     wait |-> FALSE, timeout |-> p["timeout"]]

DeleteServerCall(p) ==
    [op |-> "delete_server", name |-> p["name"],
     wait |-> p["wait"], timeout |-> p["timeout"]]

AddIpsToServerCall(p) ==
    [op |-> "add_ips_to_server",
     kwargs |-> Kw("auto_ip", p, "auto_floating_ip") @@
                Kw("ips", p, "floating_ips") @@
                Kw("ip_pool", p, "floating_ip_pools")]

AddIpListCall(missing_ips) == [op |-> "add_ip_list", ips |-> missing_ips]

RemoveFloatingIpCall(server, ip) ==
    [op |-> "remove_floating_ip", server |-> server["id"], address |-> ip]

MutatingOps ==
    {"create_server", "delete_server", "add_ips_to_server", "add_ip_list",
     "remove_floating_ip"}
AttachOps == {"add_ips_to_server", "add_ip_list"}

\* ------------------------------------------------------------- exit paths
FailJson(msg) == [failed |-> TRUE, msg |-> msg]

ExitHostvars(server, changed) ==
    [failed |-> FALSE, changed |-> changed, server |-> server, id |-> server["id"]]

ExitJson(changed, text) == [failed |-> FALSE, changed |-> changed, result |-> text]

\* mutant: the handler swallows the exception and reports an unchanged success
CloudExceptionIgnored == [failed |-> FALSE, changed |-> FALSE, result |-> "ignored"]

\* main's except shade.OpenStackCloudException clause: the run ends with
\* fail_json(msg=e.message, extra_data=e.extra_data) and does nothing else
CloudExceptionResult == FailJson("OpenStackCloudException")

\* ---------------------------------------------------------- server records
ServerRecord(status, floating, fixed) ==
    [id |-> ServerId, name |-> ServerName, status |-> status,
     floating |-> floating, fixed |-> fixed]

\* mutant: the addresses are read without the 'floating' type filter
FindAllAddresses(server) == Listings(server["floating"] \cup server["fixed"])

\* openstack_find_nova_addresses(server.addresses, 'floating'): the floating
\* addresses of the record, in some listing order
FindFloatingAddresses(server) == Listings(server["floating"])

RECURSIVE SelectSeq2(_, _)
\* [x for x in s if x not in other]
SelectSeq2(s, other) ==
    IF s = <<>> THEN <<>>
    ELSE IF Head(s) \in other THEN SelectSeq2(Tail(s), other)
         ELSE <<Head(s)>> \o SelectSeq2(Tail(s), other)

MissingIps(floating_ips, ips) == SelectSeq2(floating_ips, Range(ips))
ExtraIps(floating_ips, ips) == SelectSeq2(ips, Range(floating_ips))

WantsFloatingIp(p) ==
    \/ TruthySeq(p, "floating_ip_pools")
    \/ TruthySeq(p, "floating_ips")
    \/ TruthyBool(p, "auto_floating_ip")

\* mutant: ERROR is accepted as a usable status
ActiveStatusesWithError == {"ACTIVE", "SHUTOFF", "PAUSED", "SUSPENDED", "ERROR"}

ActiveStatuses == {"ACTIVE", "SHUTOFF", "PAUSED", "SUSPENDED"}

\* mutant: an existing server does not end the run, which goes on to create
ServerStateBranchRecreate(server, state) ==
    IF server # None /\ state = "present" /\ server["status"] \notin ActiveStatuses
    THEN "fail_not_active"
    ELSE IF server # None /\ state = "absent" THEN "delete_server"
    ELSE IF state = "absent" THEN "not_present"
    ELSE "create_server"

\* mutant: state = absent goes on to delete whether or not a server was found
ServerStateBranchAlwaysDelete(server, state) ==
    IF server # None /\ state = "present"
    THEN IF server["status"] \notin ActiveStatuses THEN "fail_not_active"
         ELSE "check_floating_ips"
    ELSE IF state = "absent" THEN "delete_server"
    ELSE "create_server"

\* mutant: with state = present a server outside the accepted statuses is
\* deleted instead of reported
ServerStateBranchDeleteBroken(server, state) ==
    IF server # None /\ state = "present"
    THEN IF server["status"] \notin ActiveStatuses THEN "delete_server"
         ELSE "check_floating_ips"
    ELSE IF server # None /\ state = "absent" THEN "delete_server"
    ELSE IF state = "absent" THEN "not_present"
    ELSE "create_server"

\* where _get_server_state leaves the run, from what get_server returned
ServerStateBranch(server, state) ==
    IF server # None /\ state = "present"
    THEN IF server["status"] \notin ActiveStatuses THEN "fail_not_active"
         ELSE "check_floating_ips"
    ELSE IF server # None /\ state = "absent" THEN "delete_server"
    ELSE IF state = "absent" THEN "not_present"
    ELSE "create_server"

\* ------------------------------------------------- floating-IP reconciler
\* mutant: the extra addresses are detached before the missing are attached
FloatingIpCallsDetachFirst(p, server, ips) ==
    IF ~WantsFloatingIp(p) THEN <<>>
    ELSE IF ips = <<>> THEN <<AddIpsToServerCall(p)>>
    ELSE IF TruthySeq(p, "floating_ips")
    THEN LET missing_ips == MissingIps(p["floating_ips"], ips)
             extra_ips == ExtraIps(p["floating_ips"], ips)
         IN  [i \in 1..Len(extra_ips) |-> RemoveFloatingIpCall(server, extra_ips[i])]
             \o (IF missing_ips # <<>> THEN <<AddIpListCall(missing_ips)>> ELSE <<>>)
    ELSE <<>>

\* mutant: an address is requested even when the server already has one
FloatingIpCallsAlwaysAdd(p, server, ips) ==
    IF ~WantsFloatingIp(p) THEN <<>>
    ELSE IF ips = <<>> \/ ~TruthySeq(p, "floating_ips")
    THEN <<AddIpsToServerCall(p)>>
    ELSE LET missing_ips == MissingIps(p["floating_ips"], ips)
             extra_ips == ExtraIps(p["floating_ips"], ips)
         IN  (IF missing_ips # <<>> THEN <<AddIpListCall(missing_ips)>> ELSE <<>>)
             \o [i \in 1..Len(extra_ips) |-> RemoveFloatingIpCall(server, extra_ips[i])]

\* the cloud calls _check_floating_ips makes when none of them raises, given
\* the floating addresses ips it read from the server record
FloatingIpCalls(p, server, ips) ==
    IF ~WantsFloatingIp(p) THEN <<>>
    ELSE IF ips = <<>> THEN <<AddIpsToServerCall(p)>>
    ELSE IF TruthySeq(p, "floating_ips")
    THEN LET missing_ips == MissingIps(p["floating_ips"], ips)
             extra_ips == ExtraIps(p["floating_ips"], ips)
         IN  (IF missing_ips # <<>> THEN <<AddIpListCall(missing_ips)>> ELSE <<>>)
             \o [i \in 1..Len(extra_ips) |-> RemoveFloatingIpCall(server, extra_ips[i])]
    ELSE <<>>

\* mutant: detaching the extra addresses does not set the changed flag
FloatingIpChangedAttachOnly(p, ips) ==
    IF ~WantsFloatingIp(p) THEN FALSE
    ELSE IF ips = <<>> THEN TRUE
    ELSE IF TruthySeq(p, "floating_ips")
    THEN MissingIps(p["floating_ips"], ips) # <<>>
    ELSE FALSE

\* the changed flag _check_floating_ips returns when no call raises
FloatingIpChanged(p, ips) ==
    IF ~WantsFloatingIp(p) THEN FALSE
    ELSE IF ips = <<>> THEN TRUE
    ELSE IF TruthySeq(p, "floating_ips")
    THEN \/ MissingIps(p["floating_ips"], ips) # <<>>
         \/ ExtraIps(p["floating_ips"], ips) # <<>>
    ELSE FALSE

\* ------------------------------------------------------------ the provider
\* effect of one successful floating-IP call on the provider's record of the
\* server; newaddr is the address the provider hands out when it chooses
ApplyFloatingCall(srv, call, newaddr) ==
    IF call["op"] = "add_ips_to_server"
    THEN LET kw == call["kwargs"]
         IN  IF TruthySeq(kw, "ip_pool")
             THEN [srv EXCEPT !["floating"] = @ \cup {newaddr}]
             ELSE IF TruthySeq(kw, "ips")
             THEN [srv EXCEPT !["floating"] = @ \cup Range(kw["ips"])]
             ELSE IF TruthyBool(kw, "auto_ip")
             THEN [srv EXCEPT !["floating"] = @ \cup {newaddr}]
             ELSE srv
    ELSE IF call["op"] = "add_ip_list"
    THEN [srv EXCEPT !["floating"] = @ \cup Range(call["ips"])]
    ELSE IF call["op"] = "remove_floating_ip"
    THEN [srv EXCEPT !["floating"] = @ \ {call["address"]}]
    ELSE srv

RECURSIVE ApplyFloatingCalls(_, _, _)
ApplyFloatingCalls(srv, cs, newaddr) ==
    IF cs = <<>> THEN srv
    ELSE ApplyFloatingCalls(ApplyFloatingCall(srv, Head(cs), newaddr), Tail(cs), newaddr)

\* what the provider's catalog can answer to the lookups of one run
Catalogs ==
    [images : Opt("img", {"image-1"}),
     flavors : Opt("m1.small", {"flavor-1"}),
     flavor_list : SUBSET FlavorUniverse,
     networks : Opt("private", {"net-9"}),
     ports : Opt("eth0", {"port-9"})]

\* the catalogs that differ in a table the run's lookups consult: the
\* tables no lookup of the run reads are left empty
ConsultedCatalogs(p) ==
    {c \in Catalogs :
        /\ TruthyStr(p, "root_volume") => c.images = None
        /\ TruthyStr(p, "flavor") => c.flavor_list = {}
        /\ ~TruthyStr(p, "flavor") => c.flavors = None
        /\ (\A i \in 1..Len(p["nics"]) : ~TruthyStr(p["nics"][i], "net-name"))
              => c.networks = None
        /\ (\A i \in 1..Len(p["nics"]) : ~TruthyStr(p["nics"][i], "port-name"))
              => c.ports = None}

Lookup(table, key) == IF Has(table, key) THEN "id" :> table[key] ELSE None

\* shade's get_flavor_by_ram(ram, include): of the listed flavors with at
\* least ram MB whose name contains include (when given), the one with the
\* least RAM; None when no flavor qualifies
GetFlavorByRam(listed, a) ==
    LET qualifying == {f \in listed :
                          /\ Has(a, "ram") => f.ram >= a["ram"]
                          /\ Has(a, "include") => Contains(f.name, a["include"])}
    IN  IF qualifying = {} THEN None
        ELSE "id" :> (CHOOSE f \in qualifying :
                         \A g \in qualifying : f.ram <= g.ram).id

\* ------------------------------------------------------------ create path
\* mutant: a name the catalog does not know is skipped instead of failing
NicArgsSkipUnresolved(net, catalog) ==
    IF TruthyStr(net, "net-id") \/ TruthyStr(net, "port-id")
    THEN [args |-> <<net>>, calls |-> <<>>, fail |-> ""]
    ELSE IF TruthyStr(net, "net-name")
    THEN LET by_name == Lookup(catalog.networks, net["net-name"])
         IN  [args |-> IF by_name = None THEN <<>>
                       ELSE <<"net-id" :> by_name["id"]>>,
              calls |-> <<[op |-> "get_network", name |-> net["net-name"]]>>,
              fail |-> ""]
    ELSE IF TruthyStr(net, "port-name")
    THEN LET by_name == Lookup(catalog.ports, net["port-name"])
         IN  [args |-> IF by_name = None THEN <<>>
                       ELSE <<"port-id" :> by_name["id"]>>,
              calls |-> <<[op |-> "get_port", name |-> net["port-name"]]>>,
              fail |-> ""]
    ELSE [args |-> <<>>, calls |-> <<>>, fail |-> ""]

\* one pass of _network_args' loop: what the entry adds to the boot
\* arguments, the lookup it makes, and the fail_json message if any
NicArgs(net, catalog) ==
    IF TruthyStr(net, "net-id")
    THEN [args |-> <<net>>, calls |-> <<>>, fail |-> ""]
    ELSE IF TruthyStr(net, "net-name")
    THEN LET by_name == Lookup(catalog.networks, net["net-name"])
             call == [op |-> "get_network", name |-> net["net-name"]]
         IN  IF by_name = None
             THEN [args |-> <<>>, calls |-> <<call>>,
                   fail |-> "Could not find network by net-name"]
             ELSE [args |-> <<"net-id" :> by_name["id"]>>, calls |-> <<call>>,
                   fail |-> ""]
    ELSE IF TruthyStr(net, "port-id")
    THEN [args |-> <<net>>, calls |-> <<>>, fail |-> ""]
    ELSE IF TruthyStr(net, "port-name")
    THEN LET by_name == Lookup(catalog.ports, net["port-name"])
             call == [op |-> "get_port", name |-> net["port-name"]]
         IN  IF by_name = None
             THEN [args |-> <<>>, calls |-> <<call>>,
                   fail |-> "Could not find port by port-name"]
             ELSE [args |-> <<"port-id" :> by_name["id"]>>, calls |-> <<call>>,
                   fail |-> ""]
    ELSE [args |-> <<>>, calls |-> <<>>, fail |-> ""]

RECURSIVE NetworkArgs(_, _)
NetworkArgs(nics, catalog) ==
    IF nics = <<>> THEN [args |-> <<>>, calls |-> <<>>, fail |-> ""]
    ELSE LET first == NicArgs(Head(nics), catalog)
         IN  IF first.fail # "" THEN first
             ELSE LET rest == NetworkArgs(Tail(nics), catalog)
                  IN  [args |-> first.args \o rest.args,
                       calls |-> first.calls \o rest.calls,
                       fail |-> rest.fail]

\* image lookup of _create_server: skipped when booting from a root volume
ImageStep(p, catalog) ==
    IF ~TruthyStr(p, "root_volume")
    THEN [calls |-> <<[op |-> "get_image_id",
                       args |-> Kw("name_or_id", p, "image") @@
                                Kw("exclude", p, "image_exclude")]>>,
          image_id |-> IF Has(p, "image")
                       THEN Lookup(catalog.images, p["image"]) ELSE None]
    ELSE [calls |-> <<>>, image_id |-> None]

\* mutant: the include filter is not handed to get_flavor_by_ram
FlavorStepWithoutInclude(p, catalog) ==
    IF TruthyStr(p, "flavor")
    THEN LET flavor_dict == Lookup(catalog.flavors, p["flavor"])
         IN  [calls |-> <<[op |-> "get_flavor", name_or_id |-> p["flavor"]]>>,
              flavor_dict |-> flavor_dict,
              fail |-> IF flavor_dict = None THEN "Could not find flavor" ELSE ""]
    ELSE LET a == Kw("ram", p, "flavor_ram")
             flavor_dict == GetFlavorByRam(catalog.flavor_list, a)
         IN  [calls |-> <<[op |-> "get_flavor_by_ram", args |-> a,
                           listed |-> catalog.flavor_list]>>,
              flavor_dict |-> flavor_dict,
              fail |-> IF flavor_dict = None
                       THEN "Could not find any matching flavor" ELSE ""]

\* flavor lookup of _create_server.  The get_flavor_by_ram call is logged
\* with the flavors the provider listed for it.
FlavorStep(p, catalog) ==
    IF TruthyStr(p, "flavor")
    THEN LET flavor_dict == Lookup(catalog.flavors, p["flavor"])
         IN  [calls |-> <<[op |-> "get_flavor", name_or_id |-> p["flavor"]]>>,
              flavor_dict |-> flavor_dict,
              fail |-> IF flavor_dict = None THEN "Could not find flavor" ELSE ""]
    ELSE LET a == Kw("ram", p, "flavor_ram") @@ Kw("include", p, "flavor_include")
             flavor_dict == GetFlavorByRam(catalog.flavor_list, a)
         IN  [calls |-> <<[op |-> "get_flavor_by_ram", args |-> a,
                           listed |-> catalog.flavor_list]>>,
              flavor_dict |-> flavor_dict,
              fail |-> IF flavor_dict = None
                       THEN "Could not find any matching flavor" ELSE ""]

\* mutant: the nics argument is passed on as supplied, names unresolved
BootKwargsRawNics(p, image_id, flavor_dict, nics) ==
    ("name" :> p["name"]) @@
    Kw("image", image_id, "id") @@
    ("flavor" :> flavor_dict["id"]) @@
    ("nics" :> p["nics"])

BootKwargs(p, image_id, flavor_dict, nics) ==
    ("name" :> p["name"]) @@
    Kw("image", image_id, "id") @@
    ("flavor" :> flavor_dict["id"]) @@
    ("nics" :> nics)

CreateServerCall(p, bootkwargs) ==
    [op |-> "create_server",
     kwargs |-> Kw("ip_pool", p, "floating_ip_pools") @@
                Kw("ips", p, "floating_ips") @@
                Kw("auto_ip", p, "auto_floating_ip") @@
                Kw("root_volume", p, "root_volume") @@
                Kw("wait", p, "wait") @@ Kw("timeout", p, "timeout") @@
                bootkwargs]

\* the lookups of _create_server in order, where they stop, and the create
\* call they lead to
CreatePlan(p, catalog) ==
    LET image == ImageStep(p, catalog)
        flavor == FlavorStep(p, catalog)
    IN  IF flavor.fail # ""
        THEN [calls |-> image.calls \o flavor.calls, fail |-> flavor.fail,
              create |-> <<>>]
        ELSE LET nics == NetworkArgs(p["nics"], catalog)
                 lookups == image.calls \o flavor.calls \o nics.calls
             IN  IF nics.fail # ""
                 THEN [calls |-> lookups, fail |-> nics.fail, create |-> <<>>]
                 ELSE [calls |-> lookups, fail |-> "",
                       create |-> <<CreateServerCall(p,
                                      BootKwargs(p, image.image_id,
                                                 flavor.flavor_dict, nics.args))>>]

\* how shade's create_server can end
CreateOutcomes(p) ==
    IF p["wait"] THEN {"raise", "active", "timeout", "error"}
    ELSE {"raise", "building", "error"}

\* ------------------------------------------------------------------ state
VARIABLES
    args,        \* the arguments the module is run with (same on every run)
    HAS_SHADE,   \* whether the shade import succeeded
    cloud,       \* the provider's record of the server named name, or None
    pc,          \* position of the current run inside main
    server,      \* the run's local server record, or None
    observed,    \* <<r>> once get_server has returned r in this run
    calls,       \* cloud calls issued by the current run, in order
    result,      \* what the run handed to exit_json / fail_json, or None
    invocation,  \* number of the current run
    interfered,  \* the provider changed on its own since the current run began
    history      \* result and interference of the earlier runs

vars == <<args, HAS_SHADE, cloud, pc, server, observed, calls, result,
          invocation, interfered, history>>

params == ModuleParams(args)

\* a server that is still building has no floating address yet
InitialServers ==
    {None} \cup {ServerRecord("BUILD", {}, FixedAddrs)}
           \cup {ServerRecord(st, fl, FixedAddrs) :
                    st \in Statuses \ {"BUILD"}, fl \in SUBSET FloatingAddrs}

Init ==
    /\ args \in Arguments
    /\ HAS_SHADE \in BOOLEAN
    /\ cloud \in InitialServers
    \* a run that stops before connecting never reaches the cloud: one
    \* provider state suffices for it
    /\ (~HAS_SHADE \/ ExclusiveConflict(args) \/ ImageRequiredMissing(params)
          \/ FlavorRequiredMissing(params)) => cloud = None
    \* state = present never deletes, so a run that starts with a server on
    \* the provider never reaches _network_args: one nics argument
    \* suffices for it
    /\ (cloud # None /\ args["state"] = "present") => ~Has(args, "nics")
    /\ pc = "main"
    /\ server = None
    /\ observed = <<>>
    /\ calls = <<>>
    /\ result = None
    /\ invocation = 1
    /\ interfered = FALSE
    /\ history = <<>>

Finish(r) == pc' = "done" /\ result' = r

\* main up to the connection to the cloud: AnsibleModule's argument checks,
\* the shade import check and the required-parameter checks
Main ==
    /\ pc = "main"
    /\ IF ExclusiveConflict(args)
       THEN Finish(FailJson("parameters are mutually exclusive"))
       ELSE IF ~HAS_SHADE
       THEN Finish(FailJson("shade is required for this module"))
       ELSE IF ImageRequiredMissing(params)
       THEN Finish(FailJson("Parameter 'image' or 'root_volume' is required"))
       ELSE IF FlavorRequiredMissing(params)
       THEN Finish(FailJson("Parameter 'flavor' or 'flavor_ram' is required"))
       ELSE pc' = "get_server_state" /\ result' = result
    /\ UNCHANGED <<args, HAS_SHADE, cloud, server, observed, calls,
                   invocation, interfered, history>>

\* _get_server_state up to the point where it hands over
GetServerState ==
    /\ pc = "get_server_state"
    /\ calls' = Append(calls, GetServerCall(params))
    /\ \E raised \in BOOLEAN :
          IF raised
          THEN /\ Finish(CloudExceptionResult)
               /\ UNCHANGED <<server, observed>>
          ELSE /\ server' = cloud
               /\ observed' = <<cloud>>
               /\ LET branch == ServerStateBranch(cloud, params["state"])
                  IN  IF branch = "fail_not_active"
                      THEN Finish(FailJson("The instance is available but not Active state"))
                      ELSE IF branch = "not_present"
                      THEN Finish(ExitJson(FALSE, "not present"))
                      ELSE pc' = branch /\ result' = result
    /\ UNCHANGED <<args, HAS_SHADE, cloud, invocation, interfered, history>>

\* _check_floating_ips followed by _exit_hostvars
CheckFloatingIps ==
    /\ pc = "check_floating_ips"
    /\ \E ips \in FindFloatingAddresses(server), newaddr \in FloatingAddrs :
         LET plan == FloatingIpCalls(params, server, ips)
         IN  \E n \in 0..Len(plan) :
               LET raised == n < Len(plan)
                   done == SubSeq(plan, 1, n)
                   attached == SelectSeq(done, LAMBDA c : c["op"] \in AttachOps)
                   refreshed == IF attached = <<>> THEN server
                                ELSE ApplyFloatingCalls(cloud, attached, newaddr)
               IN  /\ calls' = calls \o SubSeq(plan, 1, IF raised THEN n + 1 ELSE n)
                   /\ cloud' = ApplyFloatingCalls(cloud, done, newaddr)
                   /\ server' = refreshed
                   /\ IF ~raised
                      THEN Finish(ExitHostvars(refreshed, FloatingIpChanged(params, ips)))
                      ELSE IF plan[n + 1]["op"] = "remove_floating_ip"
                      THEN Finish(FailJson("unhandled exception"))
                      ELSE Finish(CloudExceptionResult)
    /\ UNCHANGED <<args, HAS_SHADE, observed, invocation, interfered, history>>

\* _create_server
CreateServer ==
    /\ pc = "create_server"
    /\ \E catalog \in ConsultedCatalogs(params) :
         LET plan == CreatePlan(params, catalog)
         IN  \/ \* one of the lookups raises
                \E n \in 1..Len(plan.calls) :
                   /\ calls' = calls \o SubSeq(plan.calls, 1, n)
                   /\ Finish(CloudExceptionResult)
                   /\ UNCHANGED <<cloud, server>>
             \/ \* a lookup finds nothing
                /\ plan.fail # ""
                /\ calls' = calls \o plan.calls
                /\ Finish(FailJson(plan.fail))
                /\ UNCHANGED <<cloud, server>>
             \/ /\ plan.fail = ""
                /\ calls' = calls \o plan.calls \o plan.create
                /\ \E outcome \in CreateOutcomes(params) :
                     LET built == ServerRecord("BUILD", {}, FixedAddrs)
                     IN  CASE outcome = "raise" ->
                                /\ Finish(CloudExceptionResult)
                                /\ UNCHANGED <<cloud, server>>
                           [] outcome = "timeout" ->
                                /\ Finish(CloudExceptionResult)
                                /\ cloud' = built
                                /\ UNCHANGED server
                           [] outcome = "error" ->
                                /\ Finish(CloudExceptionResult)
                                /\ cloud' = ServerRecord("ERROR", {}, FixedAddrs)
                                /\ UNCHANGED server
                           [] outcome = "building" ->
                                /\ cloud' = built
                                /\ server' = built
                                /\ Finish(ExitHostvars(built, TRUE))
                           [] outcome = "active" ->
                                \E newaddr \in FloatingAddrs :
                                  LET active == ApplyFloatingCall(
                                         ServerRecord("ACTIVE", {}, FixedAddrs),
                                         AddIpsToServerCall(params), newaddr)
                                  IN  /\ cloud' = active
                                      /\ server' = active
                                      /\ Finish(ExitHostvars(active, TRUE))
    /\ UNCHANGED <<args, HAS_SHADE, observed, invocation, interfered, history>>

\* _delete_server
DeleteServer ==
    /\ pc = "delete_server"
    /\ calls' = Append(calls, DeleteServerCall(params))
    /\ \E raised \in BOOLEAN :
          IF raised
          THEN /\ Finish(FailJson("Error in deleting vm"))
               /\ UNCHANGED cloud
          ELSE /\ Finish(ExitJson(TRUE, "deleted"))
               /\ \/ cloud' = None
                  \/ ~params["wait"] /\ UNCHANGED cloud
    /\ UNCHANGED <<args, HAS_SHADE, server, observed, invocation, interfered, history>>

\* the module is run again with the same arguments
NextInvocation ==
    /\ pc = "done"
    /\ invocation < MaxInvocations
    /\ history' = Append(history, [result |-> result, interfered |-> interfered])
    /\ invocation' = invocation + 1
    /\ pc' = "main"
    /\ server' = None
    /\ observed' = <<>>
    /\ calls' = <<>>
    /\ result' = None
    /\ interfered' = FALSE
    /\ UNCHANGED <<args, HAS_SHADE, cloud>>

\* between two runs the provider finishes building the server on its own
ProviderSettle ==
    /\ pc = "done" /\ invocation < MaxInvocations
    /\ cloud # None
    /\ cloud["status"] = "BUILD"
    /\ \E st \in {"ACTIVE", "ERROR"} : cloud' = [cloud EXCEPT !["status"] = st]
    /\ interfered' = TRUE
    /\ UNCHANGED <<args, HAS_SHADE, pc, server, observed, calls, result,
                   invocation, history>>

Next ==
    \/ Main
    \/ GetServerState
    \/ CheckFloatingIps
    \/ CreateServer
    \/ DeleteServer
    \/ NextInvocation
    \/ ProviderSettle

Spec == Init /\ [][Next]_vars

TypeOK ==
    /\ pc \in {"main", "get_server_state", "check_floating_ips",
               "create_server", "delete_server", "done"}
    /\ invocation \in 1..MaxInvocations

\* ----------------------------------------------------- claim vocabulary
Done == pc = "done"
Succeeded == Done /\ ~result["failed"]
Failed == Done /\ result["failed"]

CallsWithOp(ops) == SelectSeq(calls, LAMBDA c : c["op"] \in ops)
NoCall(ops) == CallsWithOp(ops) = <<>>
FloatingOps == {"add_ips_to_server", "add_ip_list", "remove_floating_ip"}
LookupOps == {"get_server", "get_image_id", "get_flavor", "get_flavor_by_ram",
              "get_network", "get_port"}

\* get_server returned in this run, and found nothing / found a server
ObservedAbsent == observed = <<None>>
ObservedServer == observed # <<>> /\ observed[1] # None
ObservedStatus(sts) == ObservedServer /\ observed[1]["status"] \in sts

\* the run ended because a cloud call raised
CallRaised ==
    Failed /\ result["msg"] \in {"OpenStackCloudException", "unhandled exception",
                                 "Error in deleting vm"}

TargetPresent == args["state"] = "present"
TargetAbsent == args["state"] = "absent"

\* addresses handed to the attach calls / to the detach calls of this run
AttachedAddrs ==
    UNION {IF calls[i]["op"] = "add_ip_list" THEN Range(calls[i]["ips"])
           ELSE IF calls[i]["op"] = "add_ips_to_server"
                   /\ Has(calls[i]["kwargs"], "ips")
           THEN Range(calls[i]["kwargs"]["ips"])
           ELSE {} : i \in 1..Len(calls)}
DetachedAddrs ==
    {calls[i]["address"] : i \in {j \in 1..Len(calls) :
                                     calls[j]["op"] = "remove_floating_ip"}}

\* ---------------------------------------------------------------------- C1
\* C1: when the module is run twice in a row with the same present-state
\* arguments, the first run succeeds and the provider does not change on its
\* own and no cloud call raises, the second run succeeds with changed = false and issues no create,
\* delete, attach or detach call.
C1_Idempotence ==
    (/\ Done /\ invocation >= 2 /\ TargetPresent
     /\ ~interfered /\ ~CallRaised
     /\ ~history[Len(history)]["interfered"]
     /\ ~history[Len(history)]["result"]["failed"])
    => /\ ~result["failed"]
       /\ result["changed"] = FALSE
       /\ NoCall(MutatingOps)

\* ---------------------------------------------------------------------- C2
\* the ids the provider's catalog resolves the arguments' references to
ByRamCall == CallsWithOp({"get_flavor_by_ram"})[1]
ResolvedFlavor ==
    IF Has(args, "flavor") /\ args["flavor"] # "" THEN "flavor-1"
    ELSE GetFlavorByRam(ByRamCall["listed"], ByRamCall["args"])["id"]
ResolvedNic(net) ==
    IF Has(net, "net-name") THEN "net-id" :> "net-9"
    ELSE IF Has(net, "port-name") THEN "port-id" :> "port-9"
    ELSE net
PolicyKwargs(kw) ==
    /\ Has(kw, "ips") = Has(args, "floating_ips")
    /\ Has(kw, "ips") => kw["ips"] = args["floating_ips"]
    /\ Has(kw, "ip_pool") = Has(args, "floating_ip_pools")
    /\ Has(kw, "ip_pool") => kw["ip_pool"] = args["floating_ip_pools"]
    /\ kw["auto_ip"] = (IF Has(args, "auto_floating_ip")
                        THEN args["auto_floating_ip"] ELSE TRUE)

\* C2: when get_server finds no server and state = present, the run makes
\* at most one create call; that call comes after the image lookup (made
\* unless a root volume is given), the flavor lookup and the network lookups,
\* carries the resolved flavor, image and network ids and the floating-IP
\* policy of the arguments; and a run that succeeds has made exactly one
\* create call, as its last call, and returns changed = true with the record
\* of the created server.
C2_CreateWhenAbsent ==
    (Done /\ ObservedAbsent /\ TargetPresent) =>
       LET creates == CallsWithOp({"create_server"})
           last == calls[Len(calls)]
           kw == last["kwargs"]
           supplied_nics == IF Has(args, "nics") THEN args["nics"] ELSE <<>>
       IN  /\ Len(creates) <= 1
           /\ NoCall({"delete_server"} \cup FloatingOps)
           /\ Len(creates) = 1 =>
                 /\ last["op"] = "create_server"
                 /\ \A i \in 1..(Len(calls) - 1) : calls[i]["op"] \in LookupOps
                 /\ (Has(args, "root_volume") <=> NoCall({"get_image_id"}))
                 /\ ~NoCall({"get_flavor", "get_flavor_by_ram"})
                 /\ Len(CallsWithOp({"get_network", "get_port"}))
                      = Cardinality({i \in 1..Len(supplied_nics) :
                                       \/ Has(supplied_nics[i], "net-name")
                                       \/ Has(supplied_nics[i], "port-name")})
                 /\ kw["name"] = ServerName
                 /\ kw["flavor"] = ResolvedFlavor
                 /\ Has(kw, "image") => kw["image"] = "image-1"
                 /\ Has(kw, "image") => ~Has(args, "root_volume")
                 /\ kw["nics"] = [i \in 1..Len(supplied_nics) |->
                                     ResolvedNic(supplied_nics[i])]
                 /\ PolicyKwargs(kw)
           /\ ~result["failed"] =>
                 /\ Len(creates) = 1
                 /\ result["changed"] = TRUE
                 /\ result["server"] = server
                 /\ result["server"] = cloud \/ interfered
                 /\ result["id"] = ServerId

C2_Witness ==
    /\ Succeeded /\ ObservedAbsent /\ TargetPresent
    /\ ~NoCall({"create_server"})
    /\ ~NoCall({"get_image_id"})
    /\ ~NoCall({"get_network"})
    /\ Has(args, "floating_ips")
    /\ result["changed"] = TRUE

C4_ErrorStateNotRemediated ==
    (Done /\ TargetPresent /\ ObservedStatus({"ERROR"})) =>
       /\ result["failed"]
       /\ calls = <<GetServerCall(params)>>
       /\ NoCall(MutatingOps)

C4_Witness ==
    /\ Failed /\ TargetPresent /\ ObservedStatus({"ERROR"})
    /\ result["msg"] = "The instance is available but not Active state"
    /\ cloud # None /\ cloud["status"] = "ERROR"

\* ---------------------------------------------------------------------- C5
\* C5: when get_server finds no server and state = absent, the run succeeds
\* with changed = false and makes no delete call (nor any other call after
\* the lookup).
C5_DeleteIdempotent ==
    (Done /\ TargetAbsent /\ ObservedAbsent) =>
       /\ ~result["failed"]
       /\ result["changed"] = FALSE
       /\ NoCall({"delete_server"})
       /\ calls = <<GetServerCall(params)>>

C5_Witness ==
    /\ Succeeded /\ TargetAbsent /\ ObservedAbsent
    /\ result["result"] = "not present"
    /\ cloud = None

\* ---------------------------------------------------------------------- C6
\* C6: when get_server finds a server in status ACTIVE, SHUTOFF, PAUSED,
\* SUSPENDED or ERROR and state = absent, the run makes exactly one delete
\* call, keyed by the server name and carrying the wait and timeout
\* arguments, and no other call after the lookup; it ends either with
\* changed = true or with the failure raised by the delete.
C6_DeleteExisting ==
    (Done /\ TargetAbsent
          /\ ObservedStatus({"ACTIVE", "SHUTOFF", "PAUSED", "SUSPENDED", "ERROR"})) =>
       /\ calls = << [op |-> "get_server", name |-> ServerName],
                     [op |-> "delete_server", name |-> ServerName,
                      wait |-> args["wait"], timeout |-> args["timeout"]] >>
       /\ IF result["failed"]
          THEN result["msg"] = "Error in deleting vm" /\ cloud # None
          ELSE /\ result["changed"] = TRUE
               /\ result["result"] = "deleted"
               /\ args["wait"] => cloud = None

C6_Witness ==
    /\ Succeeded /\ TargetAbsent /\ ObservedStatus({"ERROR"})
    /\ result["changed"] = TRUE
    /\ args["wait"] /\ cloud = None
    /\ ~NoCall({"delete_server"})

\* ---------------------------------------------------------------------- C7
\* the argument combinations the claim names: image with root_volume, flavor
\* with flavor_ram, two or more of the three floating-IP policies
SuppliedTogether(ks) == Cardinality(ks \cap DOMAIN args) >= 2
SpecConflict ==
    \/ SuppliedTogether({"image", "root_volume"})
    \/ SuppliedTogether({"flavor", "flavor_ram"})
    \/ SuppliedTogether({"auto_floating_ip", "floating_ips", "floating_ip_pools"})

\* C7: a run whose arguments supply image together with root_volume, flavor
\* together with flavor_ram, or two or more of auto_floating_ip, floating_ips
\* and floating_ip_pools never makes a cloud call and ends in the
\* mutually-exclusive failure.
C7_MutualExclusion ==
    SpecConflict =>
       /\ calls = <<>>
       /\ pc \in {"main", "done"}
       /\ Done => /\ result["failed"]
                  /\ result["msg"] = "parameters are mutually exclusive"

C7_Witness ==
    /\ Failed /\ calls = <<>>
    /\ SuppliedTogether({"floating_ips", "floating_ip_pools"})
    /\ ~SuppliedTogether({"image", "root_volume"})
    /\ ~SuppliedTogether({"flavor", "flavor_ram"})
    /\ result["msg"] = "parameters are mutually exclusive"

\* ---------------------------------------------------------------------- C8
RequiredFieldMissing ==
    \/ ~Has(args, "image") /\ ~Has(args, "root_volume")
    \/ ~Has(args, "flavor") /\ ~Has(args, "flavor_ram")
RequiredMessages ==
    {"Parameter 'image' or 'root_volume' is required",
     "Parameter 'flavor' or 'flavor_ram' is required"}

\* C8: with state = present, a run whose arguments supply neither image nor
\* root_volume, or neither flavor nor flavor_ram, never makes a cloud call
\* and ends in a failure; with state = absent the same arguments pass the
\* required-parameter checks: unless another check stops it, the run goes
\* on to the server lookup and never ends in a required-parameter failure.
C8_RequiredFields ==
    RequiredFieldMissing =>
       /\ TargetPresent =>
             /\ calls = <<>>
             /\ pc \in {"main", "done"}
             /\ Done => result["failed"]
       /\ (TargetAbsent /\ Done) =>
             /\ result["failed"] => result["msg"] \notin RequiredMessages
             /\ (HAS_SHADE /\ ~SpecConflict) => calls # <<>>

C8_Witness ==
    /\ Failed /\ TargetPresent /\ HAS_SHADE /\ ~SpecConflict
    /\ Has(args, "image") /\ ~Has(args, "flavor") /\ ~Has(args, "flavor_ram")
    /\ result["msg"] = "Parameter 'flavor' or 'flavor_ram' is required"
    /\ calls = <<>>

\* ---------------------------------------------------------------------- C9
ExplicitList == Has(args, "floating_ips") /\ args["floating_ips"] # <<>>
Desired == Range(args["floating_ips"])
ObservedFloating == observed[1]["floating"]
ExistingServerRun ==
    /\ Done /\ TargetPresent
    /\ ObservedStatus({"ACTIVE", "SHUTOFF", "PAUSED", "SUSPENDED"})

\* C9: on an existing server with observed floating addresses O and an
\* explicit floating_ips list D, every attach call of the run comes before
\* every detach call, only addresses of D minus O are attached and only
\* addresses of O minus D detached; in a run that succeeds all of D minus O
\* is attached, all of O minus D is detached, and the server's floating
\* addresses on the provider are then exactly D.
C9_ExplicitListConvergence ==
    (ExistingServerRun /\ ExplicitList) =>
       /\ \A i, j \in 1..Len(calls) :
             (calls[i]["op"] \in AttachOps /\ calls[j]["op"] = "remove_floating_ip")
                => i < j
       /\ AttachedAddrs \subseteq Desired \ ObservedFloating
       /\ DetachedAddrs \subseteq ObservedFloating \ Desired
       /\ ~result["failed"] =>
             /\ AttachedAddrs = Desired \ ObservedFloating
             /\ DetachedAddrs = ObservedFloating \ Desired
             /\ Len(CallsWithOp({"remove_floating_ip"}))
                   = Cardinality(ObservedFloating \ Desired)
             /\ cloud["floating"] = Desired

C9_Witness ==
    /\ ExistingServerRun /\ ExplicitList /\ Succeeded
    /\ AttachedAddrs # {} /\ DetachedAddrs # {}
    /\ ObservedFloating # {}
    /\ cloud["floating"] = Desired

\* --------------------------------------------------------------------- C10
AutoOrPoolPolicy ==
    /\ ~ExplicitList
    /\ \/ Has(args, "floating_ip_pools")
       \/ ~Has(args, "auto_floating_ip")
       \/ args["auto_floating_ip"]

\* C10: on an existing server under the auto-assign or the pool-list policy,
\* an address is requested only when the server was observed with no
\* floating address; when it was observed with one or more, the run makes
\* no attach and no detach call, reports changed = false and leaves the
\* server's floating addresses as they were.
C10_AutoAndPoolOnlyWhenNone ==
    (ExistingServerRun /\ AutoOrPoolPolicy) =>
       /\ NoCall({"remove_floating_ip", "add_ip_list"})
       /\ ~NoCall({"add_ips_to_server"}) => ObservedFloating = {}
       /\ ObservedFloating # {} =>
             /\ NoCall(FloatingOps)
             /\ ~result["failed"]
             /\ result["changed"] = FALSE
             /\ cloud["floating"] = ObservedFloating
       /\ (ObservedFloating = {} /\ ~result["failed"]) =>
             /\ Len(CallsWithOp({"add_ips_to_server"})) = 1
             /\ result["changed"] = TRUE
             /\ Cardinality(cloud["floating"]) = 1

C10_Witness ==
    /\ ExistingServerRun /\ AutoOrPoolPolicy /\ Succeeded
    /\ Has(args, "floating_ip_pools")
    /\ ObservedFloating # {}
    /\ result["changed"] = FALSE
    /\ NoCall(FloatingOps)

\* --------------------------------------------------------------------- C11
\* C11: after a run on an existing server, whatever the floating-IP policy,
\* the server's fixed addresses on the provider are the ones observed, no
\* attach or detach call names a fixed address, and every address handed to
\* a detach call is a floating address observed on the server.
C11_FixedAddressesUntouched ==
    ExistingServerRun =>
       /\ cloud["fixed"] = observed[1]["fixed"]
       /\ DetachedAddrs \subseteq ObservedFloating
       /\ DetachedAddrs \cap observed[1]["fixed"] = {}
       /\ AttachedAddrs \cap observed[1]["fixed"] = {}
       /\ ~result["failed"] => result["server"]["fixed"] = observed[1]["fixed"]

C11_Witness ==
    /\ ExistingServerRun /\ Succeeded
    /\ DetachedAddrs # {}
    /\ observed[1]["fixed"] # {}
    /\ cloud["fixed"] = observed[1]["fixed"]
    /\ cloud["floating"] # ObservedFloating

\* --------------------------------------------------------------------- C12
\* C12: a run with state = present that finds the server in BUILD does not
\* return a result while the server is still in BUILD on the provider,
\* unless a bounded wait ran out (which surfaces as a raised cloud call):
\* it returns only once the server has left BUILD.
C12_WaitsWhileBuilding ==
    (Done /\ TargetPresent /\ ObservedStatus({"BUILD"}) /\ ~interfered) =>
       \/ CallRaised
       \/ cloud # None /\ cloud["status"] # "BUILD"

\* --------------------------------------------------------------------- C13
\* the run created the server with wait = true and shade's wait ran out:
\* the server is on the provider, still in BUILD, when the run ends
CreateTimedOut ==
    /\ Done /\ TargetPresent /\ ObservedAbsent /\ ~interfered
    /\ params["wait"]
    /\ ~NoCall({"create_server"})
    /\ cloud # None /\ cloud["status"] = "BUILD"

\* C13: when a create with wait = true is still in BUILD at the timeout, the
\* run returns a failure, issues no delete call (the create call is its last
\* call) and the created server is still on the provider under its name.
C13_TimeoutWithoutRollback ==
    CreateTimedOut =>
       /\ result["failed"]
       /\ NoCall({"delete_server"})
       /\ calls[Len(calls)]["op"] = "create_server"
       /\ cloud["name"] = params["name"]

C13_Witness ==
    /\ CreateTimedOut
    /\ Failed /\ CallRaised
    /\ params["timeout"] = 180
    /\ Len(CallsWithOp({"create_server"})) = 1

\* --------------------------------------------------------------------- C14
SuppliedNics == IF Has(args, "nics") THEN args["nics"] ELSE <<>>
NicByName(net) == Has(net, "net-name") \/ Has(net, "port-name")
NicLookup(net) ==
    IF Has(net, "net-name") THEN [op |-> "get_network", name |-> net["net-name"]]
    ELSE [op |-> "get_port", name |-> net["port-name"]]
NicNotFound ==
    Failed /\ result["msg"] \in {"Could not find network by net-name",
                                 "Could not find port by port-name"}

\* C14: the nics list handed to the create call has the length and order of
\* the nics argument: an entry given by net-id or port-id is passed on as it
\* is, an entry given by net-name or port-name is replaced by the id its
\* lookup resolved, and the lookups are made in list order.  A run that
\* ends because a name did not resolve fails with the not-found message of
\* that entry's lookup, made last, and issues no create call.
C14_NetworkResolution ==
    (Done /\ TargetPresent /\ ObservedAbsent) =>
       LET nlookups == CallsWithOp({"get_network", "get_port"})
           named == SelectSeq(SuppliedNics, NicByName)
       IN  /\ ~NoCall({"create_server"}) =>
                LET nics == calls[Len(calls)]["kwargs"]["nics"]
                IN  /\ Len(nics) = Len(SuppliedNics)
                    /\ \A i \in 1..Len(SuppliedNics) :
                          IF NicByName(SuppliedNics[i])
                          THEN nics[i] = ResolvedNic(SuppliedNics[i])
                          ELSE nics[i] = SuppliedNics[i]
                    /\ nlookups = [i \in 1..Len(named) |-> NicLookup(named[i])]
           /\ NicNotFound =>
                /\ NoCall({"create_server"})
                /\ nlookups # <<>>
                /\ calls[Len(calls)] = nlookups[Len(nlookups)]
                /\ \A i \in 1..Len(nlookups) : nlookups[i] = NicLookup(named[i])
                /\ (result["msg"] = "Could not find network by net-name")
                      <=> (calls[Len(calls)]["op"] = "get_network")

C14_Witness ==
    /\ Done /\ TargetPresent /\ ObservedAbsent /\ NicNotFound
    /\ Len(SuppliedNics) = 2
    /\ NoCall({"create_server"})
    /\ calls[Len(calls)]["op"] = "get_port"

\* --------------------------------------------------------------------- C15
\* C15: a create call is never issued without an image id unless a root
\* volume is given: a run whose image lookup resolved nothing ends in a
\* failure before any create call.
C15_ImageResolutionFailure ==
    (Done /\ TargetPresent /\ ObservedAbsent /\ ~NoCall({"create_server"})) =>
       LET kw == calls[Len(CallsWithOp(LookupOps)) + 1]["kwargs"]
       IN  Has(kw, "image") \/ Has(kw, "root_volume")

\* --------------------------------------------------------------------- C16
ExactFlavor == Has(args, "flavor") /\ args["flavor"] # ""
FlavorNotFound ==
    Failed /\ result["msg"] \in {"Could not find flavor",
                                 "Could not find any matching flavor"}
\* the listed flavors the claim lets the run choose from
Qualifying(listed) ==
    {f \in listed :
        /\ Has(args, "flavor_ram") => f.ram >= args["flavor_ram"]
        /\ Has(args, "flavor_include") => Contains(f.name, args["flavor_include"])}

\* C16: when an exact flavor is given the run looks it up directly and makes
\* no by-RAM query.  Otherwise it makes one by-RAM query with the minimum RAM
\* and the include filter of the arguments and no direct lookup, and the
\* flavor of the create call is, among the listed flavors with at least that
\* RAM whose name contains the filter, one of least RAM.  When no flavor
\* qualifies the run fails with the not-found message and makes no create
\* call.
C16_FlavorResolution ==
    (Done /\ TargetPresent /\ ObservedAbsent) =>
       LET created == ~NoCall({"create_server"})
           kw == calls[Len(calls)]["kwargs"]
           direct == CallsWithOp({"get_flavor"})
           by_ram == CallsWithOp({"get_flavor_by_ram"})
       IN  /\ ExactFlavor =>
                /\ by_ram = <<>>
                /\ direct \in {<<>>, <<[op |-> "get_flavor",
                                        name_or_id |-> args["flavor"]]>>}
                /\ created => direct # <<>> /\ kw["flavor"] = "flavor-1"
           /\ ~ExactFlavor =>
                /\ direct = <<>>
                /\ Len(by_ram) <= 1
                /\ created => by_ram # <<>>
           /\ by_ram # <<>> =>
                LET q == Qualifying(by_ram[1]["listed"])
                IN  /\ by_ram[1]["args"] =
                          Kw("ram", args, "flavor_ram") @@
                          Kw("include", args, "flavor_include")
                    /\ created => \E f \in q : /\ kw["flavor"] = f.id
                                               /\ \A g \in q : f.ram <= g.ram
                    /\ q = {} => /\ Failed /\ ~created
                                 /\ CallRaised \/ FlavorNotFound
           /\ FlavorNotFound =>
                /\ ~created
                /\ calls[Len(calls)]["op"] \in {"get_flavor", "get_flavor_by_ram"}
                /\ by_ram # <<>> => Qualifying(by_ram[1]["listed"]) = {}

C16_Witness ==
    /\ Done /\ TargetPresent /\ ObservedAbsent
    /\ ~NoCall({"create_server"})
    /\ Has(args, "flavor_include")
    /\ ~NoCall({"get_flavor_by_ram"})
    /\ CallsWithOp({"get_flavor_by_ram"})[1]["listed"] = FlavorUniverse
    /\ calls[Len(calls)]["kwargs"]["flavor"] = "flavor-c"

\* --------------------------------------------------------------------- C17
\* the run observed a server by name, or its create call left one on the
\* provider
ServerObservedOrCreated ==
    \/ ObservedServer
    \/ ObservedAbsent /\ ~NoCall({"create_server"}) /\ cloud # None

\* C17: a run with state = present that fails after it observed or created
\* the server returns, in its failure result, the record of that server.
C17_FailureCarriesRecord ==
    (Failed /\ TargetPresent /\ ServerObservedOrCreated) =>
       /\ Has(result, "server")
       /\ result["server"]["id"] = ServerId

\* --------------------------------------------------------------------- C18
\* a run on an existing server with an explicit floating_ips list ended
\* because its attach call raised
AttachFailed ==
    /\ ExistingServerRun /\ ExplicitList /\ Failed
    /\ calls[Len(calls)]["op"] \in AttachOps

\* C18: with an explicit floating_ips list, when the attach call fails the
\* run returns a failure without having issued any detach call, and every
\* floating address the server had when it was observed is still attached.
C18_AttachFailureKeepsAddresses ==
    AttachFailed =>
       /\ result["failed"]
       /\ NoCall({"remove_floating_ip"})
       /\ Len(CallsWithOp(AttachOps)) = 1
       /\ ObservedFloating \subseteq cloud["floating"]

C18_Witness ==
    /\ AttachFailed
    /\ ObservedFloating \ Desired # {}
    /\ Desired \ ObservedFloating # {}
    /\ NoCall({"remove_floating_ip"})
    /\ cloud["floating"] = ObservedFloating

\* --------------------------------------------------------------------- C19
\* C19: a run that succeeds with changed = false has issued no create,
\* delete, attach or detach call, and a run that succeeds after issuing at
\* least one such call returns changed = true.
C19_ChangedFlagSound ==
    Succeeded =>
       /\ result["changed"] = FALSE => NoCall(MutatingOps)
       /\ ~NoCall(MutatingOps) => result["changed"] = TRUE

C19_Witness ==
    /\ Succeeded /\ ExistingServerRun
    /\ result["changed"] = TRUE
    /\ NoCall(AttachOps)
    /\ ~NoCall({"remove_floating_ip"})

\* --------------------------------------------------------------------- C20
\* C20: at every point of a run, the run has issued at most one create call
\* and at most one delete call and never both; with state = present it has
\* issued no delete call; with state = absent it has issued no create,
\* attach or detach call; and a create call has been issued only after the
\* lookup by name found no server.
C20_CallExclusivity ==
    LET creates == CallsWithOp({"create_server"})
        deletes == CallsWithOp({"delete_server"})
    IN  /\ Len(creates) <= 1
        /\ Len(deletes) <= 1
        /\ creates = <<>> \/ deletes = <<>>
        /\ TargetPresent => deletes = <<>>
        /\ TargetAbsent => creates = <<>> /\ NoCall(FloatingOps)
        /\ creates # <<>> => ObservedAbsent
        /\ deletes # <<>> => ObservedServer

C20_Witness ==
    /\ Done /\ TargetPresent /\ ObservedAbsent
    /\ invocation = MaxInvocations
    /\ Len(CallsWithOp({"create_server"})) = 1
    /\ NoCall({"delete_server"})
    /\ history # <<>>

====
